---- MODULE Spec2Model ----
(***************************************************************************)
(* A model of src/core/manga_processor.py: get_epub_info,                  *)
(* extract_images_in_order and rebuild_manga_epub, run by one or two       *)
(* callers over a shared working directory.                                *)
(*                                                                         *)
(* Strings are sequences of tokens.  The tokens are the separators "/"     *)
(* and backslash, the segments "." and "..", and file or directory names.  *)
(* The path functions are those of a POSIX host (posixpath, PurePosixPath).*)
(***************************************************************************)
EXTENDS Integers, Sequences, FiniteSets, TLC

Slash == "/"
Backslash == "(backslash)"
Dot == "."
DotDot == ".."

\* ------------------------------------------------------------------ bounds
\* The longest spine, and the longest spine of the archives whose content
\* documents write their image reference in an unusual form.
MaxSpine == 3
MaxPathSpine == 2
\* The longest spine of each of two concurrent calls.
MaxParSpine == 2
\* The most files the input folders list in one run of a script.
MaxBooks == 2
\* The longest spine of an archive that is rebuilt twice.
MaxTwiceSpine == 2
\* The longest spine of the archives whose package documents write their
\* title and creator in every form.
MaxMetaSpine == 2

\* ------------------------------------------------------- string functions

\* str.startswith('/')
StartsWithSlash(s) == s # <<>> /\ s[1] = Slash

\* str.split('/')
RECURSIVE Split(_)
Split(s) ==
    IF \A j \in 1..Len(s) : s[j] # Slash
    THEN <<s>>
    ELSE LET j == CHOOSE j \in 1..Len(s) :
                      s[j] = Slash /\ \A h \in 1..(j - 1) : s[h] # Slash
         IN  <<SubSeq(s, 1, j - 1)>> \o Split(SubSeq(s, j + 1, Len(s)))

\* '/'.join(comps)
RECURSIVE JoinSlash(_)
JoinSlash(comps) ==
    IF comps = <<>> THEN <<>>
    ELSE IF Len(comps) = 1 THEN comps[1]
    ELSE comps[1] \o <<Slash>> \o JoinSlash(Tail(comps))

\* str.replace('\\', '/')
ReplaceBackslash(s) ==
    [j \in 1..Len(s) |-> IF s[j] = Backslash THEN Slash ELSE s[j]]

\* posixpath.join(a, b)
PathJoin(a, b) ==
    IF StartsWithSlash(b) THEN b
    ELSE IF a = <<>> \/ a[Len(a)] = Slash THEN a \o b
    ELSE a \o <<Slash>> \o b

\* str.rstrip('/')
RECURSIVE RStripSlash(_)
RStripSlash(s) ==
    IF s # <<>> /\ s[Len(s)] = Slash
    THEN RStripSlash(SubSeq(s, 1, Len(s) - 1))
    ELSE s

\* posixpath.dirname(p)
Dirname(p) ==
    LET slashes == {j \in 1..Len(p) : p[j] = Slash}
        i == IF slashes = {} THEN 0
             ELSE CHOOSE j \in slashes : \A h \in slashes : h <= j
        head == SubSeq(p, 1, i)
    IN  IF head # <<>> /\ \E j \in 1..Len(head) : head[j] # Slash
        THEN RStripSlash(head)
        ELSE head

\* The loop of posixpath.normpath over the components.
RECURSIVE NormComps(_, _, _)
NormComps(comps, new_comps, initial_slashes) ==
    IF comps = <<>> THEN new_comps
    ELSE LET comp == Head(comps)
             rest == Tail(comps)
         IN  IF comp = <<>> \/ comp = <<Dot>>
             THEN NormComps(rest, new_comps, initial_slashes)
             ELSE IF \/ comp # <<DotDot>>
                     \/ (initial_slashes = 0 /\ new_comps = <<>>)
                     \/ (new_comps # <<>> /\ new_comps[Len(new_comps)] = <<DotDot>>)
             THEN NormComps(rest, Append(new_comps, comp), initial_slashes)
             ELSE IF new_comps # <<>>
             THEN NormComps(rest, SubSeq(new_comps, 1, Len(new_comps) - 1),
                            initial_slashes)
             ELSE NormComps(rest, new_comps, initial_slashes)

\* posixpath.normpath(path)
NormPath(path) ==
    IF path = <<>> THEN <<Dot>>
    ELSE LET initial_slashes ==
                 IF ~StartsWithSlash(path) THEN 0
                 ELSE IF /\ Len(path) >= 2 /\ path[2] = Slash
                         /\ ~(Len(path) >= 3 /\ path[3] = Slash)
                 THEN 2
                 ELSE 1
             comps == NormComps(Split(path), <<>>, initial_slashes)
             p == [j \in 1..initial_slashes |-> Slash] \o JoinSlash(comps)
         IN  IF p = <<>> THEN <<Dot>> ELSE p

\* (Path(a) / b).as_posix(): pathlib drops empty and "." segments, keeps ".."
PathlibJoin(a, b) ==
    LET parts(x) == SelectSeq(Split(x), LAMBDA c : c # <<>> /\ c # <<Dot>>)
        rel == JoinSlash(IF StartsWithSlash(b) THEN parts(b)
                         ELSE parts(a) \o parts(b))
    IN  IF StartsWithSlash(b) \/ StartsWithSlash(a) THEN <<Slash>> \o rel
        ELSE IF rel = <<>> THEN <<Dot>>
        ELSE rel

\* The extension of a file name.
NameExt(tok) ==
    CASE tok \in {"01.jpg", "gone.jpg", "bad.jpg", "x.jpg"} -> ".jpg"
      [] tok = "02.png" -> ".png"
      [] tok \in {"content.opf", "missing.opf"} -> ".opf"
      [] tok \in {"p1.xhtml", "p2.xhtml", "txt.xhtml", "noimg.xhtml",
                  "badimg.xhtml", "baddoc.xhtml", "gone.xhtml", "abs.xhtml",
                  "bs.xhtml", "esc.xhtml", "near.xhtml"} -> ".xhtml"
      [] tok = "container.xml" -> ".xml"
      [] OTHER -> ""

\* os.path.splitext(path)[1]
SplitExt(path) ==
    IF path = <<>> \/ path[Len(path)] = Slash THEN ""
    ELSE NameExt(path[Len(path)])

\* str.strip(): white space is the token " ".
RECURSIVE Strip(_)
Strip(s) ==
    IF s # <<>> /\ s[1] = " " THEN Strip(Tail(s))
    ELSE IF s # <<>> /\ s[Len(s)] = " " THEN Strip(SubSeq(s, 1, Len(s) - 1))
    ELSE s

\* The tokens that <dc:TAG[^>]*> and </dc:TAG> match under re.IGNORECASE.
OpenTag(tag) == {"<dc:" \o tag \o ">", "<DC:" \o tag \o " id='x'>"}
CloseTag(tag) == {"</dc:" \o tag \o ">"}

\* re.search(r'<dc:TAG[^>]*>(.*?)</dc:TAG>', s, re.IGNORECASE | re.DOTALL):
\* the leftmost opening tag with a closing tag after it, and the text up to
\* the first such closing tag.
ReSearch(s, tag) ==
    LET opens == {a \in 1..Len(s) :
                     /\ s[a] \in OpenTag(tag)
                     /\ \E b \in (a + 1)..Len(s) : s[b] \in CloseTag(tag)}
    IN  IF opens = {} THEN [found |-> FALSE, group |-> <<>>]
        ELSE LET a == CHOOSE x \in opens : \A y \in opens : x <= y
                 b == CHOOSE x \in (a + 1)..Len(s) :
                          /\ s[x] \in CloseTag(tag)
                          /\ \A y \in (a + 1)..(x - 1) : s[y] \notin CloseTag(tag)
             IN  [found |-> TRUE, group |-> SubSeq(s, a + 1, b - 1)]

\* A field that is taken as matched, with no default.
GroupOrDefaultUnguarded(m, default) == Strip(m.group)

\* Lines 43-44: m.group(1).strip() if m else the placeholder.
GroupOrDefault(m, default) == IF m.found THEN Strip(m.group) ELSE default

UnknownManga == <<"Unknown Manga">>
UnknownAuthor == <<"Unknown Author">>

P2(a, b) == <<a, Slash, b>>
P3(a, b, c) == <<a, Slash, b, Slash, c>>

\* ------------------------------------------------------------ the archive

\* What re.search finds when a content document holds no <img ... src=...>.
NoImg == <<"(none)">>

Doc(src) == [kind |-> "doc", readable |-> TRUE, src |-> src, bytes |-> <<>>]
Img(book, b) == [kind |-> "image", readable |-> TRUE, src |-> NoImg, bytes |-> <<book, b>>]
\* An entry whose read raises BadZipFile (bad CRC, unsupported compression).
Corrupt(kind) == [kind |-> kind, readable |-> FALSE, src |-> NoImg, bytes |-> <<>>]

ContainerPath == P2("META-INF", "container.xml")
OpfPath == P2("OEBPS", "content.opf")
MissingOpfPath == P2("OEBPS", "missing.opf")
TextPath(name) == P3("OEBPS", "Text", name)
ImagePath(name) == P3("OEBPS", "Images", name)
UpRef(name) == <<DotDot, Slash, "Images", Slash, name>>

\* How a package document writes its title or its creator: as a dc: element
\* with text, with an attribute and upper case, with white space alone,
\* with no closing tag, under another prefix, or not at all.
FieldForms == {"text", "attr", "blank", "unclosed", "prefix", "absent"}

Element(tag, form, text) ==
    CASE form = "text" -> <<"<dc:" \o tag \o ">", " ", text, " ", "</dc:" \o tag \o ">">>
      [] form = "attr" -> <<"<DC:" \o tag \o " id='x'>", text, "</dc:" \o tag \o ">">>
      [] form = "blank" -> <<"<dc:" \o tag \o ">", " ", "</dc:" \o tag \o ">">>
      [] form = "unclosed" -> <<"<dc:" \o tag \o ">", text>>
      [] form = "prefix" -> <<"<" \o tag \o ">", text, "</" \o tag \o ">">>
      [] OTHER -> <<>>

\* The text of the package document.
OpfText(inp) ==
    <<"<metadata>">> \o Element("title", inp.title, "One Piece") \o <<" ">>
    \o Element("creator", inp.creator, "Oda") \o <<"</metadata>">>

\* The manifest of the package document: item id -> href, relative to the
\* package document's directory.
OpfManifest ==
    [id \in {"p1", "p2", "gone", "txt", "noimg", "badimg", "baddoc", "abs", "bs",
             "esc", "near"}
        |-> P2("Text", id \o ".xhtml")]

\* The spine may also name an id the manifest lacks.
FailKinds == {"nx", "gone", "txt", "noimg", "badimg", "baddoc"}
GoodKinds == {"p1", "p2"}
PathKinds == {"abs", "bs", "esc", "near"}

\* The content documents of the archives.
DocEntries ==
    << [name |-> TextPath("p1.xhtml"), entry |-> Doc(UpRef("01.jpg"))],
       [name |-> TextPath("p2.xhtml"), entry |-> Doc(UpRef("02.png"))],
       [name |-> TextPath("txt.xhtml"), entry |-> Doc(NoImg)],
       [name |-> TextPath("noimg.xhtml"), entry |-> Doc(UpRef("gone.jpg"))],
       [name |-> TextPath("badimg.xhtml"), entry |-> Doc(UpRef("bad.jpg"))],
       [name |-> TextPath("baddoc.xhtml"), entry |-> Corrupt("doc")],
       [name |-> TextPath("abs.xhtml"),
        entry |-> Doc(<<Slash>> \o ImagePath("01.jpg"))],
       [name |-> TextPath("bs.xhtml"),
        entry |-> Doc(<<DotDot, Backslash, "Images", Backslash, "01.jpg">>)],
       [name |-> TextPath("esc.xhtml"),
        entry |-> Doc(<<DotDot, Slash, DotDot, Slash, DotDot, Slash, "x.jpg">>)],
       [name |-> TextPath("near.xhtml"), entry |-> Doc(P2("Images", "01.jpg"))] >>

\* The image entries of a book's archive.
ImageEntries(book) ==
    << [name |-> <<"OEBPS", Slash, "Text", Slash, "Images", Slash, "01.jpg">>,
        entry |-> Img(book, "t01")],
       [name |-> ImagePath("01.jpg"), entry |-> Img(book, "01")],
       [name |-> ImagePath("02.png"), entry |-> Img(book, "02")],
       [name |-> ImagePath("bad.jpg"), entry |-> Corrupt("image")],
       [name |-> P2(DotDot, "x.jpg"), entry |-> Img(book, "x")] >>

\* The entries of an input archive, in namelist order.
ArchiveList(inp) ==
    (IF inp.container = "bad" THEN <<>>
     ELSE <<[name |-> ContainerPath,
             entry |-> [kind |-> "container", readable |-> TRUE,
                        src |-> IF inp.container = "good" THEN OpfPath
                                ELSE MissingOpfPath,
                        bytes |-> <<>>]]>>)
    \o (IF inp.hasOpf
        THEN <<[name |-> OpfPath,
                entry |-> [kind |-> "opf", readable |-> TRUE, src |-> NoImg,
                           bytes |-> OpfText(inp)]]>>
        ELSE <<>>)
    \o DocEntries \o ImageEntries(inp.book)

\* zip_ref.namelist()
Namelist(inp) == [j \in 1..Len(ArchiveList(inp)) |-> ArchiveList(inp)[j].name]

\* zip_ref.read(path): the entry, or the exception raised.
ZipRead(inp, path) ==
    LET L == ArchiveList(inp)
        hits == {j \in 1..Len(L) : L[j].name = path}
    IN  IF hits = {} THEN [err |-> "KeyError", src |-> NoImg, bytes |-> <<>>]
        ELSE LET e == L[CHOOSE j \in hits : TRUE].entry
             IN  IF ~e.readable
                 THEN [err |-> "BadZipFile", src |-> NoImg, bytes |-> <<>>]
                 ELSE [err |-> "none", src |-> e.src, bytes |-> e.bytes]

\* ------------------------------------------------------------------ state

Procs == {1, 2}

VARIABLES
    pc,               \* where each call of rebuild_manga_epub stands
    input,            \* each call's input archive and style configuration
    fs,               \* the working directories temp_manga_extract, temp_manga_build
    d,                \* the index of the loop over the two directories
    metadata,         \* what get_epub_info returned
    spine_ids,        \* the spine's idrefs
    k,                \* the position in the loop over spine_ids
    normalized_path,  \* the image path last resolved
    images,           \* images_in_order, then images
    i,                \* the position in the loop over images
    manifest,         \* the output manifest items
    spine,            \* the output itemrefs
    toc_links,        \* the navigation entries
    result,           \* what the call returned
    output,           \* the archive written at output_epub
    batch             \* the run of the script that calls: its loop and folders

vars == <<pc, input, fs, d, metadata, spine_ids, k, normalized_path, images, i,
          manifest, spine, toc_links, result, output, batch>>

NoMeta == [title |-> <<>>, creator |-> <<>>, opf_path |-> <<>>, opf_dir |-> <<>>,
           ok |-> FALSE]
NoResult == "none"
NoOutput == [written |-> FALSE, first |-> <<>>, rest |-> {}]

\* A directory: whether it exists, and its files as (name, content) pairs.
\* A name is (kind, number, extension); directories below it are files of
\* type "dir".
Absent == [exists |-> FALSE, files |-> {}]
EmptyDir == [exists |-> TRUE, files |-> {}]
DirNames == <<"extract", "build">>

File(name, type, data) == <<name, [type |-> type, data |-> data]>>
HasFile(dir, name) == \E f \in dir.files : f[1] = name
ContentOf(dir, name) == (CHOOSE f \in dir.files : f[1] = name)[2]
\* open(path, 'w') and write: the file is created or truncated.
WriteFile(dir, name, type, data) ==
    [dir EXCEPT !.files = {f \in @ : f[1] # name} \cup {File(name, type, data)}]

\* What a run that was killed left behind.
StaleFs ==
    [extract |-> WriteFile(EmptyDir, <<"source", 0, ".jpg">>, "image", <<0, "old">>),
     build |-> WriteFile(WriteFile(EmptyDir, <<"OEBPS", 0, "">>, "dir", <<>>),
                         <<"page", 7, ".xhtml">>, "page", <<"img", 7, ".jpg">>)]
CleanFs == [extract |-> Absent, build |-> Absent]

\* style_config.get('pages_per_chapter', 20)
DefaultPagesPerChapter == 20
PagesPerChapterChoices == {1, 2, DefaultPagesPerChapter}

BoundedSeq(S, n) == UNION {[1..m -> S] : m \in 0..n}

\* The input archives of a call: an archive with no readable package
\* document has no spine.
Inputs(book, kinds, maxLen) ==
    [book : {book}, container : {"good", "dangling", "bad"}, hasOpf : {TRUE},
     opfXml : {TRUE}, spine : BoundedSeq(kinds, maxLen),
     ppc : PagesPerChapterChoices, title : {"text"}, creator : {"text"}]
    \cup [book : {book}, container : {"good", "dangling", "bad"},
          hasOpf : BOOLEAN, opfXml : BOOLEAN, spine : {<<>>},
          ppc : {DefaultPagesPerChapter}, title : {"text"}, creator : {"text"}]

IdleInput ==
    [book |-> 2, container |-> "good", hasOpf |-> TRUE, opfXml |-> TRUE,
     spine |-> <<>>, ppc |-> DefaultPagesPerChapter, title |-> "text",
     creator |-> "text"]

\* No script runs: rebuild_manga_epub is called on its own.
NoBatch == [script |-> "none"]

\* The locals of the calls before they start.
CallLocals ==
    /\ d = [c \in Procs |-> 1]
    /\ metadata = [c \in Procs |-> NoMeta]
    /\ spine_ids = [c \in Procs |-> <<>>]
    /\ k = [c \in Procs |-> 1]
    /\ normalized_path = [c \in Procs |-> <<>>]
    /\ images = [c \in Procs |-> <<>>]
    /\ i = [c \in Procs |-> 0]
    /\ manifest = [c \in Procs |-> <<>>]
    /\ spine = [c \in Procs |-> <<>>]
    /\ toc_links = [c \in Procs |-> <<>>]
    /\ result = [c \in Procs |-> NoResult]
    /\ output = [c \in Procs |-> NoOutput]

InitLocals == batch = NoBatch /\ CallLocals

\* One call, on any archive, in a working directory that is clean or holds
\* what a killed run left.
Init ==
    /\ pc = [c \in Procs |-> IF c = 1 THEN "rm" ELSE "idle"]
    /\ \E inp \in Inputs(1, GoodKinds \cup FailKinds, MaxSpine)
                   \cup Inputs(1, PathKinds \cup {"p1"}, MaxPathSpine) :
           input = [c \in Procs |-> IF c = 1 THEN inp ELSE IdleInput]
    /\ fs \in {CleanFs, StaleFs}
    /\ InitLocals

Goto(c, label) == pc' = [pc EXCEPT ![c] = label]

\* except Exception (lines 232-234): log, return False; then the finally.
Raise(c) ==
    /\ Goto(c, "finally")
    /\ result' = [result EXCEPT ![c] = FALSE]

\* ------------------------------------------------- lines 137-141: set-up

\* if d.exists(): shutil.rmtree(d)
SetupRm(c) ==
    /\ pc[c] = "rm"
    /\ fs' = [fs EXCEPT ![DirNames[d[c]]] = Absent]
    /\ Goto(c, "mkdir")
    /\ UNCHANGED <<batch, input, d, metadata, spine_ids, k, normalized_path, images, i,
                   manifest, spine, toc_links, result, output>>

\* d.mkdir(): FileExistsError when the directory is there; the loop is
\* outside the try, so the error leaves the call with no clean-up.
SetupMkdir(c) ==
    /\ pc[c] = "mkdir"
    /\ IF fs[DirNames[d[c]]].exists
       THEN /\ Goto(c, "crashed")
            /\ UNCHANGED <<fs, d>>
       ELSE /\ fs' = [fs EXCEPT ![DirNames[d[c]]] = EmptyDir]
            /\ IF d[c] = Len(DirNames)
               THEN Goto(c, "info") /\ UNCHANGED d
               ELSE Goto(c, "rm") /\ d' = [d EXCEPT ![c] = @ + 1]
    /\ UNCHANGED <<batch, input, metadata, spine_ids, k, normalized_path, images, i,
                   manifest, spine, toc_links, result, output>>

\* ------------------------------------------- lines 16-48: get_epub_info

\* The metadata returned, or NoMeta when the function raises.  The pointer
\* of container.xml is taken as it is read; the entry list is searched only
\* when reading or parsing container.xml raised.
get_epub_info(inp) ==
    LET container == ZipRead(inp, ContainerPath)
        pointed == container.err = "none" /\ container.src # NoImg
        opf_files == SelectSeq(Namelist(inp), LAMBDA f : SplitExt(f) = ".opf")
        opf_path == IF pointed THEN container.src ELSE opf_files[1]
        opf_str == ZipRead(inp, opf_path).bytes
    IN  IF ~pointed /\ opf_files = <<>> THEN NoMeta
        ELSE IF ZipRead(inp, opf_path).err # "none" THEN NoMeta
        ELSE [title |-> GroupOrDefault(ReSearch(opf_str, "title"), UnknownManga),
              creator |-> GroupOrDefault(ReSearch(opf_str, "creator"), UnknownAuthor),
              opf_path |-> opf_path, opf_dir |-> Dirname(opf_path), ok |-> TRUE]

\* Line 144: zipfile.ZipFile(input_epub, 'r') raises when the file is
\* missing or is no zip archive.
CanOpen(inp) == inp.container # "unreadable"

GetEpubInfo(c) ==
    /\ pc[c] = "info"
    /\ LET m == IF CanOpen(input[c]) THEN get_epub_info(input[c]) ELSE NoMeta
       IN  IF m.ok
           THEN /\ metadata' = [metadata EXCEPT ![c] = m]
                /\ Goto(c, "parse")
                /\ UNCHANGED result
           ELSE /\ Raise(c)
                /\ UNCHANGED metadata
    /\ UNCHANGED <<batch, input, fs, d, spine_ids, k, normalized_path, images, i,
                   manifest, spine, toc_links, output>>

\* ------------------------------- lines 50-127: extract_images_in_order

\* Lines 57-69: ET.fromstring raises on a malformed package document.
ParseOpf(c) ==
    /\ pc[c] = "parse"
    /\ IF input[c].opfXml
       THEN /\ spine_ids' = [spine_ids EXCEPT ![c] = input[c].spine]
            /\ images' = [images EXCEPT ![c] = <<>>]
            /\ k' = [k EXCEPT ![c] = 1]
            /\ Goto(c, "spine")
            /\ UNCHANGED result
       ELSE /\ Raise(c)
            /\ UNCHANGED <<spine_ids, images, k>>
    /\ UNCHANGED <<batch, input, fs, d, metadata, normalized_path, i, manifest, spine,
                   toc_links, output>>

\* A numbering that starts at one.
NewFilenameFromOne(n, ext) == <<"source", n + 1, ext>>

\* Line 108: f"source_{len(images_in_order):05d}{target_ext}"
NewFilename(n, ext) == <<"source", n, ext>>

\* A handler for the missing entry alone.
CaughtOnlyKeyError(exc) == exc = "KeyError"

\* Lines 118-120: except Exception catches whatever one spine item raises.
CaughtPerItem(exc) == TRUE

\* Line 102: os.path.normpath(os.path.join(html_folder, img_src))
\*           .replace('\\', '/')
ResolveImage(html_folder, img_src) ==
    ReplaceBackslash(NormPath(PathJoin(html_folder, img_src)))

\* Lines 77-82: the content document's path in the archive.
HtmlPath(opf_dir, href) ==
    LET html_path == PathlibJoin(opf_dir, href)
    IN  IF StartsWithSlash(html_path) THEN Tail(html_path) ELSE html_path

\* An anchor at the package document's directory.
HtmlFolderOfPackage(opf_dir, html_path) == opf_dir

\* Line 94: html_folder = os.path.dirname(html_path)
HtmlFolder(opf_dir, html_path) == Dirname(html_path)

\* Lines 72-120, one pass of the loop: the extraction directory and the list
\* after it, the path resolved, and the exception the pass ended with
\* ("none", or the one handled at line 115 or 118).  An image records its
\* path (the list's element), and for the properties the spine position,
\* the content document read and the archive entry it came from.
ExtractOne(inp, opf_dir, item_id, pos, imgs, dir, prev) ==
    LET skip(exc) == [dir |-> dir, images |-> imgs, normalized |-> prev, exc |-> exc]
        html_path == HtmlPath(opf_dir, OpfManifest[item_id])
        doc == ZipRead(inp, html_path)
        img_src == doc.src
        html_folder == HtmlFolder(opf_dir, html_path)
        \* Line 95 computes Path.resolve() of the same join and drops it.
        norm == ResolveImage(html_folder, img_src)
        new_filename == NewFilename(Len(imgs), SplitExt(norm))
        img == ZipRead(inp, norm)
        opened == WriteFile(dir, new_filename, "image", <<>>)
    IN  IF item_id \notin DOMAIN OpfManifest THEN skip("none")
        ELSE IF doc.err # "none" THEN skip(doc.err)
        ELSE IF img_src = NoImg THEN skip("none")
        ELSE IF ~dir.exists
        THEN [dir |-> dir, images |-> imgs, normalized |-> norm,
              exc |-> "FileNotFoundError"]
        ELSE IF img.err # "none"
        THEN [dir |-> opened, images |-> imgs, normalized |-> norm, exc |-> img.err]
        ELSE [dir |-> WriteFile(dir, new_filename, "image", img.bytes),
              images |-> Append(imgs, [path |-> new_filename, pos |-> pos,
                                       doc |-> html_path, from |-> norm]),
              normalized |-> norm, exc |-> "none"]

ExtractItem(c) ==
    /\ pc[c] = "spine"
    /\ k[c] <= Len(spine_ids[c])
    /\ LET r == ExtractOne(input[c], metadata[c].opf_dir, spine_ids[c][k[c]], k[c],
                           images[c], fs.extract, normalized_path[c])
       IN  /\ fs' = [fs EXCEPT !.extract = r.dir]
           /\ images' = [images EXCEPT ![c] = r.images]
           /\ normalized_path' = [normalized_path EXCEPT ![c] = r.normalized]
           /\ IF r.exc = "none" \/ CaughtPerItem(r.exc)
              THEN /\ k' = [k EXCEPT ![c] = @ + 1]
                   /\ UNCHANGED <<pc, result>>
              ELSE /\ Raise(c)
                   /\ UNCHANGED k
    /\ UNCHANGED <<batch, input, d, metadata, spine_ids, i, manifest, spine, toc_links,
                   output>>

\* Lines 122-127 and 152-154: an empty list is logged and returned, and the
\* caller returns False.
ExtractDone(c) ==
    /\ pc[c] = "spine"
    /\ k[c] > Len(spine_ids[c])
    /\ IF images[c] = <<>>
       THEN /\ result' = [result EXCEPT ![c] = FALSE]
            /\ Goto(c, "finally")
       ELSE /\ Goto(c, "init_build")
            /\ UNCHANGED result
    /\ UNCHANGED <<batch, input, fs, d, metadata, spine_ids, k, normalized_path, images,
                   i, manifest, spine, toc_links, output>>

\* ---------------------------------- lines 156-230: the build and the zip

DirFile(name) == <<name, 0, "">>

\* One file operation on the build directory: the directory after it, and
\* whether it succeeded (it raises FileNotFoundError or FileExistsError
\* otherwise).  "mkdir" is Path.mkdir(), "mkdirs" is mkdir(parents=True)
\* below OEBPS, "write" is open(path, 'w') with its write.
ApplyOp(b, o) ==
    LET parentOk == b.exists /\ (o.parent = "" \/ HasFile(b, DirFile(o.parent)))
    IN  CASE o.op = "mkdir" ->
               IF parentOk /\ ~HasFile(b, o.name)
               THEN [ok |-> TRUE, dir |-> WriteFile(b, o.name, "dir", <<>>)]
               ELSE [ok |-> FALSE, dir |-> b]
          [] o.op = "mkdirs" ->
               IF b.exists /\ HasFile(b, o.name)
               THEN [ok |-> FALSE, dir |-> b]
               ELSE [ok |-> TRUE,
                     dir |-> WriteFile(WriteFile([b EXCEPT !.exists = TRUE],
                                                 DirFile(o.parent), "dir", <<>>),
                                       o.name, "dir", <<>>)]
          [] OTHER ->
               IF parentOk
               THEN [ok |-> TRUE, dir |-> WriteFile(b, o.name, o.type, o.data)]
               ELSE [ok |-> FALSE, dir |-> b]

\* The operations in order, up to the first that raises.
RECURSIVE RunOps(_, _)
RunOps(b, ops) ==
    IF ops = <<>> THEN [ok |-> TRUE, dir |-> b]
    ELSE LET r == ApplyOp(b, Head(ops))
         IN  IF r.ok THEN RunOps(r.dir, Tail(ops)) ELSE r

Op(op, parent, name, type, data) ==
    [op |-> op, parent |-> parent, name |-> name, type |-> type, data |-> data]

\* Lines 157-164.
InitBuildOps ==
    << Op("mkdir", "", DirFile("META-INF"), "dir", <<>>),
       Op("mkdirs", "OEBPS", DirFile("images"), "dir", <<>>),
       Op("write", "", DirFile("mimetype"), "text", <<"application/epub+zip">>),
       Op("write", "META-INF", DirFile("container.xml"), "text", <<"container">>),
       Op("write", "OEBPS", DirFile("style.css"), "text", <<"css">>) >>

InitBuild(c) ==
    /\ pc[c] = "init_build"
    /\ LET r == RunOps(fs.build, InitBuildOps)
       IN  /\ fs' = [fs EXCEPT !.build = r.dir]
           /\ IF r.ok
              THEN /\ manifest' = [manifest EXCEPT ![c] = <<>>]
                   /\ spine' = [spine EXCEPT ![c] = <<>>]
                   /\ toc_links' = [toc_links EXCEPT ![c] = <<>>]
                   /\ i' = [i EXCEPT ![c] = 0]
                   /\ Goto(c, "pages")
                   /\ UNCHANGED result
              ELSE /\ Raise(c)
                   /\ UNCHANGED <<manifest, spine, toc_links, i>>
    /\ UNCHANGED <<batch, input, d, metadata, spine_ids, k, normalized_path, images,
                   output>>

\* An image name that leaves the index out.
ImgNameUnnumbered(n, ext) == <<"img", 0, ext>>

\* Line 172: f"img_{i:04d}{ext}", and line 175: f"page_{i:04d}.xhtml"
ImgName(n, ext) == <<"img", n, ext>>
PageName(n) == <<"page", n, ".xhtml">>

\* Line 169: enumerate(images) pairs index n with the n-th element.
ImageAt(imgs, n) == imgs[n + 1]

\* Line 183
MediaType(ext) ==
    IF ext \in {".jpg", ".jpeg"} THEN "image/jpeg"
    ELSE IF ext = ".png" THEN "image/png"
    ELSE "image/"

\* The navigation entry with its end left unclamped.
ChapterLinkUnclamped(n, pages_per_chapter, total) ==
    IF n % pages_per_chapter = 0
    THEN <<[href |-> <<"page", n, ".xhtml">>, start |-> n + 1,
            end |-> n + pages_per_chapter]>>
    ELSE <<>>

\* Lines 188-192: the navigation entry opened at index n, if any.
ChapterLink(n, pages_per_chapter, total) ==
    IF n % pages_per_chapter = 0
    THEN <<[href |-> PageName(n), start |-> n + 1,
            end |-> IF n + pages_per_chapter < total THEN n + pages_per_chapter
                    ELSE total]>>
    ELSE <<>>

\* toc_links after the loop of lines 169-192 ran over indexes from..total-1.
RECURSIVE TocFrom(_, _, _)
TocFrom(from, pages_per_chapter, total) ==
    IF from >= total THEN <<>>
    ELSE ChapterLink(from, pages_per_chapter, total)
         \o TocFrom(from + 1, pages_per_chapter, total)

\* Lines 169-192, one pass of the loop.  shutil.copy raises when the source
\* file or the target directory is gone.
BuildPage(c) ==
    /\ pc[c] = "pages"
    /\ i[c] < Len(images[c])
    /\ LET n == i[c]
           img_path == ImageAt(images[c], n).path
           ext == img_path[3]
           new_img_name == ImgName(n, ext)
           xhtml_name == PageName(n)
           srcOk == fs.extract.exists /\ HasFile(fs.extract, img_path)
           r == RunOps(fs.build,
                       << Op("write", "images", new_img_name, "image",
                             IF srcOk THEN ContentOf(fs.extract, img_path).data
                             ELSE <<>>),
                          Op("write", "OEBPS", xhtml_name, "page", new_img_name) >>)
       IN  IF srcOk
           THEN /\ fs' = [fs EXCEPT !.build = r.dir]
                /\ IF r.ok
                   THEN /\ manifest' = [manifest EXCEPT ![c] = @ \o
                               << [id |-> <<"p", n>>, href |-> xhtml_name,
                                   media |-> "application/xhtml+xml"],
                                  [id |-> <<"i", n>>, href |-> new_img_name,
                                   media |-> MediaType(ext)] >>]
                        /\ spine' = [spine EXCEPT ![c] = Append(@, <<"p", n>>)]
                        /\ toc_links' = [toc_links EXCEPT ![c] = @ \o
                               ChapterLink(n, input[c].ppc, Len(images[c]))]
                        /\ i' = [i EXCEPT ![c] = n + 1]
                        /\ UNCHANGED <<pc, result>>
                   ELSE /\ Raise(c)
                        /\ UNCHANGED <<manifest, spine, toc_links, i>>
           ELSE /\ Raise(c)
                /\ UNCHANGED <<fs, manifest, spine, toc_links, i>>
    /\ UNCHANGED <<batch, input, d, metadata, spine_ids, k, normalized_path, images,
                   output>>

\* Line 201: os.urandom(8).hex()
Identifiers == {"urn-a", "urn-b"}

\* Lines 194-221: content.opf, with the title and the creator of the
\* metadata and a random identifier, and nav.xhtml.
WriteOpfNav(c) ==
    /\ pc[c] = "pages"
    /\ i[c] = Len(images[c])
    /\ \E uid \in Identifiers :
         LET r == RunOps(fs.build,
                       << Op("write", "OEBPS", DirFile("content.opf"), "opf",
                             <<"opf", manifest[c], spine[c], <<"i", 0>>,
                               metadata[c].title, metadata[c].creator, uid>>),
                          Op("write", "OEBPS", DirFile("nav.xhtml"), "nav",
                             <<"nav", toc_links[c]>>) >>)
         IN  /\ fs' = [fs EXCEPT !.build = r.dir]
             /\ IF r.ok
                THEN Goto(c, "zip") /\ UNCHANGED result
                ELSE Raise(c)
    /\ UNCHANGED <<batch, input, d, metadata, spine_ids, k, normalized_path, images, i,
                   manifest, spine, toc_links, output>>

\* ZipFile.write(path, arcname, compress_type) of an archive opened with
\* compression=ZIP_DEFLATED: a directory becomes an entry with no data,
\* stored; a file takes compress_type, or the archive's when none is given.
ZipWrite(f, compress_type) ==
    <<f[1], f[2],
      IF f[2].type = "dir" THEN "stored"
      ELSE IF compress_type = "default" THEN "deflated"
      ELSE compress_type>>

\* The mimetype entry written with the archive's compression.
MimetypeEntryDefault(build) ==
    ZipWrite(<<DirFile("mimetype"), ContentOf(build, DirFile("mimetype"))>>, "default")

\* Line 224: z.write(build_dir / "mimetype", "mimetype",
\*                   compress_type=zipfile.ZIP_STORED)
MimetypeEntry(build) ==
    ZipWrite(<<DirFile("mimetype"), ContentOf(build, DirFile("mimetype"))>>, "stored")

\* Lines 225-227: every path rglob('*') yields, directories too, whose name
\* is not "mimetype".
OtherEntries(build) ==
    {ZipWrite(f, "default") : f \in {g \in build.files : g[1][1] # "mimetype"}}

\* An archive opened with mode 'a': the entries it holds stay.
OpenForAppend(old) == old

\* Line 223: zipfile.ZipFile(output_epub, 'w', ...) starts an empty archive,
\* whatever the file held.
OpenForWrite(old) == NoOutput

\* The archive after the writes of lines 224-227 to the archive z.
ArchiveWritten(z, build) ==
    IF z.written
    THEN [z EXCEPT !.rest = @ \cup {MimetypeEntry(build)} \cup OtherEntries(build)]
    ELSE [written |-> TRUE, first |-> MimetypeEntry(build),
          rest |-> OtherEntries(build)]

\* Lines 223-230: mimetype first, then every other path below the build
\* directory in the order rglob yields them.  Writing the output may fail
\* (disk, permissions).
ZipOutput(c) ==
    /\ pc[c] = "zip"
    /\ \E writeOk \in BOOLEAN :
           IF writeOk /\ fs.build.exists /\ HasFile(fs.build, DirFile("mimetype"))
           THEN /\ output' = [output EXCEPT ![c] =
                       ArchiveWritten(OpenForWrite(output[c]), fs.build)]
                /\ result' = [result EXCEPT ![c] = TRUE]
                /\ Goto(c, "finally")
           ELSE /\ Raise(c)
                /\ UNCHANGED output
    /\ UNCHANGED <<batch, input, fs, d, metadata, spine_ids, k, normalized_path, images,
                   i, manifest, spine, toc_links>>

\* A clean-up that forgets the build directory.
CleanedUpExtractOnly(f) == [f EXCEPT !.extract = Absent]

\* Lines 236-237: shutil.rmtree(..., ignore_errors=True) of both directories.
CleanedUp(f) == [f EXCEPT !.extract = Absent, !.build = Absent]

\* Lines 235-237: the finally, on every way out of the try.
Finally(c) ==
    /\ pc[c] = "finally"
    /\ fs' = CleanedUp(fs)
    /\ Goto(c, "done")
    /\ UNCHANGED <<batch, input, d, metadata, spine_ids, k, normalized_path, images, i,
                   manifest, spine, toc_links, result, output>>

Step(c) ==
    \/ SetupRm(c) \/ SetupMkdir(c) \/ GetEpubInfo(c) \/ ParseOpf(c)
    \/ ExtractItem(c) \/ ExtractDone(c) \/ InitBuild(c) \/ BuildPage(c)
    \/ WriteOpfNav(c) \/ ZipOutput(c) \/ Finally(c)

Next == \E c \in Procs : Step(c)

Spec == Init /\ [][Next]_vars

\* Two calls for two different archives, started in the same directory and
\* interleaved step by step.
InitPar ==
    /\ pc = [c \in Procs |-> "rm"]
    /\ input \in [Procs -> [book : Procs, container : {"good"}, hasOpf : {TRUE},
                            opfXml : {TRUE},
                            spine : BoundedSeq(GoodKinds, MaxParSpine),
                            ppc : {DefaultPagesPerChapter}, title : {"text"},
                            creator : {"text"}]]
    /\ \A c \in Procs : input[c].book = c
    /\ fs = CleanFs
    /\ InitLocals

SpecPar == InitPar /\ [][Next]_vars

\* The caller calls again for the same input and the same output path, as
\* it does on its next run for a book it left in the input folder.  Call 2
\* keeps what the first call returned and wrote.
CallAgain ==
    /\ pc[1] = "done"
    /\ pc[2] = "idle"
    /\ pc' = [pc EXCEPT ![1] = "rm", ![2] = "kept"]
    /\ input' = [input EXCEPT ![2] = input[1]]
    /\ d' = [d EXCEPT ![2] = d[1], ![1] = 1]
    /\ metadata' = [metadata EXCEPT ![2] = metadata[1], ![1] = NoMeta]
    /\ spine_ids' = [spine_ids EXCEPT ![2] = spine_ids[1], ![1] = <<>>]
    /\ k' = [k EXCEPT ![2] = k[1], ![1] = 1]
    /\ normalized_path' = [normalized_path EXCEPT ![2] = normalized_path[1],
                                                  ![1] = <<>>]
    /\ images' = [images EXCEPT ![2] = images[1], ![1] = <<>>]
    /\ i' = [i EXCEPT ![2] = i[1], ![1] = 0]
    /\ manifest' = [manifest EXCEPT ![2] = manifest[1], ![1] = <<>>]
    /\ spine' = [spine EXCEPT ![2] = spine[1], ![1] = <<>>]
    /\ toc_links' = [toc_links EXCEPT ![2] = toc_links[1], ![1] = <<>>]
    /\ result' = [result EXCEPT ![2] = result[1], ![1] = NoResult]
    /\ output' = [output EXCEPT ![2] = output[1]]
    /\ UNCHANGED <<fs, batch>>

InitTwice ==
    /\ pc = [c \in Procs |-> IF c = 1 THEN "rm" ELSE "idle"]
    /\ \E inp \in Inputs(1, GoodKinds \cup {"txt", "badimg"}, MaxTwiceSpine) :
           input = [c \in Procs |-> IF c = 1 THEN inp ELSE IdleInput]
    /\ fs \in {CleanFs, StaleFs}
    /\ InitLocals

NextTwice == Step(1) \/ CallAgain

SpecTwice == InitTwice /\ [][NextTwice]_vars

\* One call, on an archive whose package document writes its title and its
\* creator in any of the forms.
InitMeta ==
    /\ pc = [c \in Procs |-> IF c = 1 THEN "rm" ELSE "idle"]
    /\ \E inp \in [book : {1}, container : {"good", "dangling", "bad"},
                    hasOpf : {TRUE}, opfXml : BOOLEAN,
                    spine : BoundedSeq(GoodKinds \cup {"txt"}, MaxMetaSpine),
                    ppc : {DefaultPagesPerChapter},
                    title : FieldForms, creator : FieldForms] :
           input = [c \in Procs |-> IF c = 1 THEN inp ELSE IdleInput]
    /\ fs \in {CleanFs, StaleFs}
    /\ InitLocals

SpecMeta == InitMeta /\ [][Next]_vars

\* ------------------------------------- the scripts that run over folders

\* manga_main.py (Dropbox), manga_main_drive.py (Google Drive) and main.py
\* (text files, Dropbox).
MangaScripts == {"manga_main", "manga_main_drive"}
Scripts == MangaScripts \cup {"main"}

\* The subfolders watched, in order; "001" is the one whose books are
\* rebuilt.
Subfolders == <<"001", "002">>
SubIndex(sub) == CHOOSE j \in 1..Len(Subfolders) : Subfolders[j] = sub

FileNames == {"a.epub", "b.epub", "a.txt"}
\* fname.lower().endswith(ext)
EndsWith(name, ext) ==
    \/ (ext = ".epub" /\ name \in {"a.epub", "b.epub"})
    \/ (ext = ".txt" /\ name = "a.txt")

\* What the archive of a listed book holds: a page with an image, or a
\* page of text alone.
BookKinds == {"pages", "text"}
BookArchive(book, kind) ==
    [book |-> book, container |-> "good", hasOpf |-> TRUE, opfXml |-> TRUE,
     spine |-> IF kind = "pages" THEN <<"p1">> ELSE <<"txt">>,
     ppc |-> DefaultPagesPerChapter, title |-> "text", creator |-> "text"]
\* A local file that is missing or cut short.
UnreadableArchive ==
    [book |-> 0, container |-> "unreadable", hasOpf |-> FALSE, opfXml |-> FALSE,
     spine |-> <<>>, ppc |-> DefaultPagesPerChapter, title |-> "text",
     creator |-> "text"]

\* The listings client.list_files returns over the subfolders: names differ
\* within a subfolder.
Listings(subs, kinds) ==
    {fl \in BoundedSeq([sub : subs, name : FileNames, kind : kinds], MaxBooks) :
        \A p, q \in 1..Len(fl) :
            p < q => /\ SubIndex(fl[p].sub) <= SubIndex(fl[q].sub)
                     /\ (fl[p].sub = fl[q].sub => fl[p].name # fl[q].name)
                     /\ (fl[p].kind = "text" => EndsWith(fl[p].name, ".epub"))
                     /\ (fl[q].kind = "text" => EndsWith(fl[q].name, ".epub"))}

\* Files of the work directory: (path, content) pairs.  A content names the
\* book whose bytes it holds and its form.
Content(of, form, by) == [of |-> of, form |-> form, by |-> by]
PutFile(files, path, content) ==
    {f \in files : f[1] # path} \cup {<<path, content>>}
Exists(files, path) == \E f \in files : f[1] = path
Get(files, path) == (CHOOSE f \in files : f[1] = path)[2]

\* The state of a script at the top of its loop over the files, with the
\* work directory and kepub_out made new (lines 36-41).
StartBatch(script, fl) ==
    [script |-> script, files |-> fl, n |-> 1, at |-> "loop",
     local |-> {}, kepub_out |-> {}, ready |-> <<>>,
     inbox |-> 1..Len(fl), archive |-> {}, uploaded |-> {},
     converted |-> {}, rebuild_failed |-> {}, convert_failed |-> {},
     upload_failed |-> {}]

InitBatch ==
    /\ pc = [c \in Procs |-> "idle"]
    /\ input = [c \in Procs |-> IdleInput]
    /\ fs \in {CleanFs, StaleFs}
    /\ CallLocals
    /\ \E script \in Scripts :
         \E fl \in IF script \in MangaScripts
                    THEN Listings({"001", "002"}, BookKinds)
                    ELSE Listings({"001", "002"}, {"pages"}) :
             batch = StartBatch(script, fl)

callVars == <<d, metadata, spine_ids, k, normalized_path, images, i, manifest,
              spine, toc_links, result, output>>

\* The local paths of a listed file: where it is downloaded, where it is
\* rebuilt, and main.py's two files named by a uuid, which is new for each
\* pass of the loop.
LocalSrc(fname) == <<"src", fname>>
RebuildPath(fname) == <<"rebuilt", fname>>
UuidTxt(safe_id) == <<"uuid-txt", safe_id>>
UuidEpub(safe_id) == <<"uuid-epub", safe_id>>

\* client.download_file of DropboxClient: it returns False on an error, with
\* nothing written when the request is refused and a file cut short when
\* the stream breaks.
DownloadOutcomes == {"ok", "error", "cut"}
Downloaded(local, path, book, dl) ==
    CASE dl = "ok" -> PutFile(local, path, Content(book, "orig", 0))
      [] dl = "cut" -> PutFile(local, path, Content(book, "cut", 0))
      [] OTHER -> local

\* The archive rebuild_manga_epub finds at a local path.
ArchiveAt(b, path) ==
    IF Exists(b.local, path) /\ Get(b.local, path).form = "orig"
    THEN BookArchive(Get(b.local, path).of, b.files[Get(b.local, path).of].kind)
    ELSE UnreadableArchive

\* The end of the loop body for this file.
NextFile(b) == [b EXCEPT !.n = @ + 1, !.at = "loop", !.ready = <<>>]

\* manga_main.py lines 53-74, manga_main_drive.py lines 50-70: the filter,
\* the download, whose result is not looked at, and the choice by subfolder.
\* GoogleDriveClient.download_file raises on an error, and nothing catches.
BeginManga ==
    /\ batch.script \in MangaScripts
    /\ batch.at = "loop"
    /\ batch.n <= Len(batch.files)
    /\ LET f == batch.files[batch.n]
           local_src == LocalSrc(f.name)
       IN  IF ~EndsWith(f.name, ".epub")
           THEN batch' = NextFile(batch) /\ UNCHANGED <<pc, input>>
           ELSE \E dl \in DownloadOutcomes :
                  LET b1 == [batch EXCEPT !.local =
                                Downloaded(@, local_src, batch.n, dl)]
                  IN  IF dl # "ok" /\ batch.script = "manga_main_drive"
                      THEN /\ batch' = [batch EXCEPT !.at = "aborted"]
                           /\ UNCHANGED <<pc, input>>
                      ELSE IF f.sub = "001"
                      THEN /\ batch' = [b1 EXCEPT !.at = "rebuild"]
                           /\ pc' = [pc EXCEPT ![1] = "rm"]
                           /\ input' = [input EXCEPT ![1] = ArchiveAt(b1, local_src)]
                      ELSE /\ batch' = [b1 EXCEPT !.at = "convert",
                                                  !.ready = local_src]
                           /\ UNCHANGED <<pc, input>>
    /\ UNCHANGED <<fs, callVars>>

\* The locals of a call that has returned are no more; the file it wrote
\* is in the work directory.
LocalsGone ==
    /\ d' = [c \in Procs |-> 1]
    /\ metadata' = [c \in Procs |-> NoMeta]
    /\ spine_ids' = [c \in Procs |-> <<>>]
    /\ k' = [c \in Procs |-> 1]
    /\ normalized_path' = [c \in Procs |-> <<>>]
    /\ images' = [c \in Procs |-> <<>>]
    /\ i' = [c \in Procs |-> 0]
    /\ manifest' = [c \in Procs |-> <<>>]
    /\ spine' = [c \in Procs |-> <<>>]
    /\ toc_links' = [c \in Procs |-> <<>>]
    /\ result' = [c \in Procs |-> NoResult]
    /\ output' = [c \in Procs |-> NoOutput]

\* A caller that logs the failure and goes on to convert.
NextAfterRebuildFallsThrough(ok) == "convert"

\* Lines 68-72: on False the script logs and continues with the next file.
NextAfterRebuild(ok) == IF ok THEN "convert" ELSE "loop"

\* Lines 68-72, when rebuild_manga_epub has returned.
RebuildReturned ==
    /\ batch.at = "rebuild"
    /\ pc[1] = "done"
    /\ LET f == batch.files[batch.n]
           ok == result[1] = TRUE
           b1 == [batch EXCEPT
                    !.local = IF ok
                              THEN PutFile(@, RebuildPath(f.name),
                                           Content(input[1].book, "rebuilt", 0))
                              ELSE @,
                    !.rebuild_failed = IF ok THEN @ ELSE @ \cup {batch.n}]
       IN  batch' = IF NextAfterRebuild(ok) = "convert"
                    THEN [b1 EXCEPT !.at = "convert",
                                    !.ready = IF ok THEN RebuildPath(f.name)
                                              ELSE LocalSrc(f.name)]
                    ELSE NextFile(b1)
    /\ pc' = [pc EXCEPT ![1] = "idle"]
    /\ input' = [input EXCEPT ![1] = IdleInput]
    /\ LocalsGone
    /\ UNCHANGED fs

\* What reading, converting and chaptering the text and generating the
\* archive come to (main.py lines 77-89): an archive, no content, or an
\* exception, which line 112 catches.
PrepOutcomes == {"ok", "empty", "raise"}

\* main.py lines 64-89.
BeginTxt ==
    /\ batch.script = "main"
    /\ batch.at = "loop"
    /\ batch.n <= Len(batch.files)
    /\ LET f == batch.files[batch.n]
       IN  IF ~EndsWith(f.name, ".txt")
           THEN batch' = NextFile(batch)
           ELSE \E dl \in DownloadOutcomes, prep \in PrepOutcomes :
                  LET b1 == [batch EXCEPT !.local =
                                Downloaded(@, UuidTxt(batch.n), batch.n, dl)]
                  IN  IF dl # "error" /\ prep = "ok"
                      THEN batch' = [b1 EXCEPT
                                       !.local = PutFile(@, UuidEpub(batch.n),
                                                    Content(batch.n, "orig", 0)),
                                       !.at = "convert",
                                       !.ready = UuidEpub(batch.n)]
                      ELSE batch' = NextFile(b1)
    /\ UNCHANGED <<pc, input, fs, callVars>>

\* The file the conversion tool deposits for an input.
KepubName(path) == <<"kepub", path>>

\* run_kepubify(input, output_dir): on success one file, named after the
\* input with the fixed suffix, is in the directory and True is returned; on
\* failure nothing is deposited and False is returned.  It cannot succeed
\* without an input it can read.
run_kepubify(local, path, dir, by, ok) ==
    IF ok /\ Exists(local, path) /\ Get(local, path).form # "cut"
    THEN [status |-> TRUE,
          dir |-> PutFile(dir, KepubName(path),
                          Content(Get(local, path).of, "kepub", by))]
    ELSE [status |-> FALSE, dir |-> dir]

\* manga_main.py lines 77 and 94-95, manga_main_drive.py line 73, main.py
\* lines 92 and 109-110.
Convert ==
    /\ batch.at = "convert"
    /\ \E ok \in BOOLEAN :
         LET r == run_kepubify(batch.local, batch.ready, batch.kepub_out,
                               batch.n, ok)
             b1 == [batch EXCEPT !.converted = @ \cup {batch.n},
                                 !.kepub_out = r.dir]
         IN  batch' = IF r.status THEN [b1 EXCEPT !.at = "upload"]
                      ELSE NextFile([b1 EXCEPT !.convert_failed = @ \cup {batch.n}])
    /\ UNCHANGED <<pc, input, fs, callVars>>

\* next(kepub_out_dir.glob("*.kepub.epub"), None) takes any file of the
\* directory with the suffix; main.py looks for the file named by its uuid.
Candidates(b) ==
    IF b.script \in MangaScripts THEN b.kepub_out
    ELSE {f \in b.kepub_out : f[1] = KepubName(b.ready)}

\* Where the loop body goes when the upload is over without a move.
AfterUpload(b) ==
    IF b.script \in MangaScripts THEN [b EXCEPT !.at = "cleanup"] ELSE NextFile(b)

\* A move whatever the upload returned.
MoveAlways(uploaded_ok) == TRUE

\* manga_main.py line 86, manga_main_drive.py line 81, main.py line 105:
\* if client.upload_file(...): the move is inside.
MoveAllowed(uploaded_ok) == uploaded_ok

\* manga_main.py lines 79-86, manga_main_drive.py lines 74-81, main.py
\* lines 94-105.
Upload ==
    /\ batch.at = "upload"
    /\ IF Candidates(batch) = {}
       THEN batch' = AfterUpload(batch)
       ELSE \E kepub_file \in Candidates(batch), uploaded_ok \in BOOLEAN :
              LET b1 == IF uploaded_ok
                        THEN [batch EXCEPT !.uploaded = @ \cup
                                 {[for |-> batch.n, file |-> kepub_file[2]]}]
                        ELSE [batch EXCEPT !.upload_failed = @ \cup {batch.n}]
              IN  batch' = IF MoveAllowed(uploaded_ok)
                           THEN [b1 EXCEPT !.at = "move"]
                           ELSE AfterUpload(b1)
    /\ UNCHANGED <<pc, input, fs, callVars>>

\* manga_main.py lines 88-90, manga_main_drive.py lines 82-84, main.py lines
\* 106-108: client.move_file, whose result is not looked at.
Move ==
    /\ batch.at = "move"
    /\ \E moved \in BOOLEAN :
         batch' = AfterUpload(IF moved
                              THEN [batch EXCEPT !.inbox = @ \ {batch.n},
                                                 !.archive = @ \cup {batch.n}]
                              ELSE batch)
    /\ UNCHANGED <<pc, input, fs, callVars>>

\* manga_main.py line 93, manga_main_drive.py line 87:
\* for f in kepub_out_dir.iterdir(): os.remove(f)
CleanedOut(dir) == {}

Cleanup ==
    /\ batch.at = "cleanup"
    /\ batch' = NextFile([batch EXCEPT !.kepub_out = CleanedOut(@)])
    /\ UNCHANGED <<pc, input, fs, callVars>>

\* The end of a script: shutil.rmtree(work_dir).
Finish ==
    /\ batch.at = "loop"
    /\ batch.n > Len(batch.files)
    /\ batch' = [batch EXCEPT !.at = "done", !.local = {}, !.kepub_out = {}]
    /\ UNCHANGED <<pc, input, fs, callVars>>

NextBatch ==
    \/ Step(1) \/ BeginManga \/ RebuildReturned \/ BeginTxt \/ Convert
    \/ Upload \/ Move \/ Cleanup \/ Finish

SpecBatch == InitBatch /\ [][NextBatch]_vars

\* ----------------------------------------------------------- properties

Range(seq) == {seq[j] : j \in 1..Len(seq)}
Min(a, b) == IF a < b THEN a ELSE b

\* A call that ran to its return with True.
Succeeded(c) == pc[c] = "done" /\ result[c] = TRUE

\* The archive path of the image a spine item's content document shows.
ImageOfItem(inp, opf_dir, id) ==
    LET html_path == HtmlPath(opf_dir, OpfManifest[id])
    IN  ResolveImage(Dirname(html_path), ZipRead(inp, html_path).src)

\* C1: the extracted images are in spine order; the j-th (from 0) is named
\* source_j, so the numbers start at 0 and rise by one per image, and a
\* skipped spine item takes none; each is the image of the spine item at
\* its position, and while the extraction directory stands the file of that
\* name holds that image's bytes.
C1_SpineOrderNumbering ==
    \A c \in Procs :
        LET imgs == images[c]
        IN  /\ \A j \in 1..Len(imgs) :
                   /\ imgs[j].path[1] = "source"
                   /\ imgs[j].path[2] = j - 1
                   /\ imgs[j].pos \in 1..(k[c] - 1)
                   /\ imgs[j].from = ImageOfItem(input[c], metadata[c].opf_dir,
                                                 spine_ids[c][imgs[j].pos])
                   /\ pc[c] \in {"spine", "init_build", "pages", "zip"}
                        => /\ HasFile(fs.extract, imgs[j].path)
                           /\ ContentOf(fs.extract, imgs[j].path).data
                                = ZipRead(input[c], imgs[j].from).bytes
            /\ \A p, q \in 1..Len(imgs) : p < q => imgs[p].pos < imgs[q].pos

\* Two images extracted around a skipped spine item.
C1_Witness ==
    /\ Len(images[1]) = 2
    /\ images[1][1].pos = 1
    /\ images[1][2].pos = 3
    /\ images[1][1].from # images[1][2].from

PagesOf(out) == {e \in out.rest : e[2].type = "page"}
ImagesOf(out) == {e \in out.rest : e[2].type = "image"}
EntryOf(out, name) == CHOOSE e \in out.rest : e[1] = name

\* C2: a successful rebuild writes one page document and one image per
\* extracted image; the j-th itemref of the output spine is page j, the
\* manifest gives page j's document, which shows image j, and image j holds
\* the bytes of the j-th extracted image.
C2_PagePerImageInOrder ==
    \A c \in Procs :
        Succeeded(c) =>
            LET out == output[c]
                n == Len(images[c])
                opf == EntryOf(out, DirFile("content.opf"))[2].data
            IN  /\ out.written
                /\ {e[1] : e \in PagesOf(out)} = {<<"page", j, ".xhtml">> : j \in 0..(n - 1)}
                /\ Cardinality(ImagesOf(out)) = n
                /\ opf[3] = [j \in 1..n |-> <<"p", j - 1>>]
                /\ \A j \in 0..(n - 1) :
                       LET page == EntryOf(out, <<"page", j, ".xhtml">>)
                           shown == page[2].data
                       IN  /\ \E m \in Range(opf[2]) :
                                  m.id = <<"p", j>> /\ m.href = page[1]
                           /\ shown[2] = j
                           /\ \E e \in ImagesOf(out) : e[1] = shown
                           /\ EntryOf(out, shown)[2].data
                                = ZipRead(input[c], images[c][j + 1].from).bytes

\* A success with two pages of different images.
C2_Witness ==
    /\ Succeeded(1)
    /\ Len(images[1]) = 2
    /\ images[1][1].from = ImagePath("02.png")
    /\ images[1][2].from = ImagePath("01.jpg")

\* The navigation entries of 45 images in chapters of 20.
Toc45 == TocFrom(0, DefaultPagesPerChapter, 45)
Toc45Ranges ==
    /\ Len(Toc45) = 3
    /\ [m \in 1..3 |-> <<Toc45[m].start, Toc45[m].end>>]
         = << <<1, 20>>, <<21, 40>>, <<41, 45>> >>

\* C3: for n >= 1 images and N pages per chapter the navigation holds
\* ceil(n/N) entries, the m-th for page index (m-1)N with start (m-1)N+1
\* and end min(mN, n): the ranges are disjoint, cover 1..n, and the last
\* ends at n; 45 images with N = 20 give (1-20), (21-40), (41-45).
C3_ChapterRanges ==
    /\ Toc45Ranges
    /\ \A c \in Procs :
           Succeeded(c) =>
               LET n == Len(images[c])
                   N == input[c].ppc
                   toc == EntryOf(output[c], DirFile("nav.xhtml"))[2].data[2]
               IN  /\ n >= 1
                   /\ toc = toc_links[c]
                   /\ Len(toc) = (n + N - 1) \div N
                   /\ \A m \in 1..Len(toc) :
                          /\ toc[m].href = <<"page", (m - 1) * N, ".xhtml">>
                          /\ toc[m].start = (m - 1) * N + 1
                          /\ toc[m].end = Min(m * N, n)
                   /\ toc[1].start = 1
                   /\ toc[Len(toc)].end = n
                   /\ \A m \in 1..(Len(toc) - 1) : toc[m + 1].start = toc[m].end + 1

\* Three pages in chapters of two: the second chapter is cut short.
C3_Witness ==
    /\ Succeeded(1)
    /\ Len(images[1]) = 3
    /\ input[1].ppc = 2
    /\ Len(toc_links[1]) = 2

\* A spine item whose content document is in the manifest and the archive,
\* is readable, and shows an image whose resolved entry can be read.
Resolvable(inp, opf_dir, id) ==
    /\ id \in DOMAIN OpfManifest
    /\ LET html_path == HtmlPath(opf_dir, OpfManifest[id])
           doc == ZipRead(inp, html_path)
       IN  /\ doc.err = "none"
           /\ doc.src # NoImg
           /\ ZipRead(inp, ResolveImage(Dirname(html_path), doc.src)).err = "none"

ResolvablePositions(c) ==
    {p \in 1..Len(spine_ids[c]) :
        Resolvable(input[c], metadata[c].opf_dir, spine_ids[c][p])}

\* The package document was found and parsed.
SpineRead(c) == metadata[c].ok /\ input[c].opfXml

HasImageEntry(inp) ==
    \E j \in 1..Len(ArchiveList(inp)) :
        /\ ArchiveList(inp)[j].entry.kind = "image"
        /\ ArchiveList(inp)[j].entry.readable
        /\ SplitExt(ArchiveList(inp)[j].name) \in {".jpg", ".png"}

\* C4: when the spine yields no image and the archive holds an image
\* entry, the fallback extractor runs and the rebuild succeeds.
C4_FallbackRescues ==
    \A c \in Procs :
        (/\ pc[c] = "done"
         /\ SpineRead(c)
         /\ ResolvablePositions(c) = {}
         /\ HasImageEntry(input[c]))
        => result[c] = TRUE

\* Whether normalising base/ref steps above the root.
RECURSIVE Climbs(_, _)
Climbs(segs, depth) ==
    IF segs = <<>> THEN FALSE
    ELSE IF Head(segs) = <<>> \/ Head(segs) = <<Dot>> THEN Climbs(Tail(segs), depth)
    ELSE IF Head(segs) = <<DotDot>> THEN depth = 0 \/ Climbs(Tail(segs), depth - 1)
    ELSE Climbs(Tail(segs), depth + 1)

ClimbsAboveRoot(base, ref) == Climbs(Split(base) \o Split(ref), 0)

ResolvesExample ==
    ResolveImage(P2("OEBPS", "Text"), UpRef("01.jpg")) = ImagePath("01.jpg")

\* C5: OEBPS/Text with ../Images/01.jpg resolves to OEBPS/Images/01.jpg, and
\* no image is extracted for a spine item whose reference climbs above the
\* archive root, whatever the archive holds.
C5_EscapingReferenceRejected ==
    /\ ResolvesExample
    /\ \A c \in Procs :
           \A j \in 1..Len(images[c]) :
               LET html_path == HtmlPath(metadata[c].opf_dir,
                                         OpfManifest[spine_ids[c][images[c][j].pos]])
               IN  ~ClimbsAboveRoot(Dirname(html_path),
                                    ZipRead(input[c], html_path).src)

\* C6: every path the resolver returns has no backslash, no leading slash
\* and no "." or ".." segment.
C6_ResolvedPathNormalForm ==
    \A c \in Procs :
        normalized_path[c] # <<>> =>
            /\ Backslash \notin Range(normalized_path[c])
            /\ ~StartsWithSlash(normalized_path[c])
            /\ \A seg \in Range(Split(normalized_path[c])) :
                   seg # <<Dot>> /\ seg # <<DotDot>>

\* C7: once the spine was read, the walk reaches its end whatever single
\* items raise; the images extracted are those of the resolvable items, one
\* each, and a run that fails had no resolvable item or failed writing its
\* output.
C7_ItemFailuresSkipped ==
    \A c \in Procs :
        (pc[c] \in {"init_build", "pages", "zip", "finally", "done"} /\ SpineRead(c))
        => LET resolvable == ResolvablePositions(c)
           IN  /\ k[c] = Len(spine_ids[c]) + 1
               /\ {images[c][j].pos : j \in 1..Len(images[c])} = resolvable
               /\ Len(images[c]) = Cardinality(resolvable)
               /\ (pc[c] = "done" /\ result[c] = FALSE)
                    => \/ resolvable = {}
                       \/ (i[c] = Len(images[c]) /\ ~output[c].written)

\* A success with one image between an unreadable image and a missing
\* content document.
C7_Witness ==
    /\ Succeeded(1)
    /\ spine_ids[1] = <<"badimg", "p1", "gone">>
    /\ Len(images[1]) = 1
    /\ images[1][1].pos = 2

PointerUsable(inp) ==
    LET container == ZipRead(inp, ContainerPath)
    IN  /\ container.err = "none"
        /\ container.src # NoImg
        /\ ZipRead(inp, container.src).err = "none"

HasOpfEntry(inp) ==
    \E j \in 1..Len(Namelist(inp)) : SplitExt(Namelist(inp)[j]) = ".opf"

\* C8: get_epub_info fails only when container.xml gives no pointer to a
\* package document and no entry ends in .opf.
C8_InfoFailsOnlyWithoutPackage ==
    \A c \in Procs :
        (pc[c] \in {"finally", "done"} /\ ~metadata[c].ok)
        => ~PointerUsable(input[c]) /\ ~HasOpfEntry(input[c])

\* C9: when a call has returned, by return or by exception, neither working
\* directory exists.
C9_TempDirsRemoved ==
    \A c \in Procs :
        pc[c] \in {"done", "crashed"} => ~fs.extract.exists /\ ~fs.build.exists

\* A call that extracted images and built its pages, then failed writing
\* the output.
C9_Witness ==
    /\ pc[1] = "done"
    /\ result[1] = FALSE
    /\ images[1] # <<>>
    /\ i[1] = Len(images[1])

\* C10: two calls for different archives share nothing: the images in the
\* output of a call that succeeded are entries of that call's own archive.
C10_OutputOfOwnInput ==
    \A c \in Procs :
        Succeeded(c) =>
            \A e \in ImagesOf(output[c]) :
                \E j \in 1..Len(ArchiveList(input[c])) :
                    /\ ArchiveList(input[c])[j].entry.kind = "image"
                    /\ ArchiveList(input[c])[j].entry.bytes = e[2].data
\* The package document of the archive can be found and read.
PackageReadable(inp) ==
    \/ PointerUsable(inp)
    \/ (ZipRead(inp, ContainerPath).err # "none" /\ HasOpfEntry(inp))

\* The package document holds no <dc:TAG ...>text</dc:TAG>.
Unmatched(inp, tag) ==
    LET text == OpfText(inp)
    IN  \A a, b \in 1..Len(text) :
            ~(a < b /\ text[a] \in OpenTag(tag) /\ text[b] \in CloseTag(tag))

NamesOf(out) == {e[1] : e \in out.rest}

\* C13 as stated: in every archive written the mimetype entry is the first,
\* stored, and there once; every other entry follows it and is compressed.
C13_MimetypeFirstOthersCompressed ==
    \A c \in Procs :
        output[c].written =>
            /\ output[c].first[1] = DirFile("mimetype")
            /\ output[c].first[3] = "stored"
            /\ DirFile("mimetype") \notin NamesOf(output[c])
            /\ \A e \in output[c].rest : e[3] = "deflated"

\* C13 as amended: in every archive written the mimetype entry is the
\* first, stored, holds the media type, and is there once; every other
\* entry follows it, the files compressed and the directory entries, which
\* hold no data, stored.
C13_MimetypeFirstFilesCompressed ==
    \A c \in Procs :
        output[c].written =>
            /\ output[c].first[1] = DirFile("mimetype")
            /\ output[c].first[2].data = <<"application/epub+zip">>
            /\ output[c].first[3] = "stored"
            /\ DirFile("mimetype") \notin NamesOf(output[c])
            /\ \A e \in output[c].rest :
                   e[3] = IF e[2].type = "dir" THEN "stored" ELSE "deflated"

\* An archive written with two pages, their images and the three
\* directories.
C13_Witness ==
    /\ output[1].written
    /\ Cardinality(ImagesOf(output[1])) = 2
    /\ Cardinality(PagesOf(output[1])) = 2
    /\ {DirFile("META-INF"), DirFile("OEBPS"), DirFile("images")} \subseteq NamesOf(output[1])
\* An archive with the identifier of its package document left out.
MaskId(e) ==
    IF e[2].type = "opf"
    THEN <<e[1], [e[2] EXCEPT !.data = [@ EXCEPT ![7] = "urn"]], e[3]>>
    ELSE e
Masked(out) == [out EXCEPT !.rest = {MaskId(e) : e \in @}]

\* A call that failed writing its output, after all its pages were built.
FailedWriting(c) ==
    result[c] = FALSE /\ images[c] # <<>> /\ i[c] = Len(images[c])

\* C14: a second rebuild of the same input to the same output returns what
\* the first returned, unless writing the output failed in one of them; it
\* extracts as many images, and after two successes the archive written
\* has the same pages, spine and chapter entries: it is the first archive
\* but for the identifier.
C14_RebuildTwiceSame ==
    (pc[2] = "kept" /\ pc[1] \in {"done", "crashed"})
    => /\ pc[1] = "done"
       /\ result[1] = result[2] \/ FailedWriting(1) \/ FailedWriting(2)
       /\ Len(images[1]) = Len(images[2])
       /\ (result[1] = TRUE /\ result[2] = TRUE)
            => /\ spine[1] = spine[2]
               /\ toc_links[1] = toc_links[2]
               /\ PagesOf(output[1]) = PagesOf(output[2])
               /\ Masked(output[1]) = Masked(output[2])

\* Two successes for two pages in chapters of one, with different
\* identifiers.
C14_Witness ==
    /\ pc[2] = "kept"
    /\ Succeeded(1)
    /\ result[2] = TRUE
    /\ Len(images[1]) = 2
    /\ input[1].ppc = 1
    /\ output[1] # output[2]
\* The segments of a relative path walked from a directory: "." stays in
\* place, ".." steps to the parent.
RECURSIVE Walk(_, _)
Walk(segs, at) ==
    IF segs = <<>> THEN at
    ELSE IF Head(segs) = <<>> \/ Head(segs) = <<Dot>> THEN Walk(Tail(segs), at)
    ELSE IF Head(segs) = <<DotDot>> /\ at # <<>> /\ at[Len(at)] # <<DotDot>>
    THEN Walk(Tail(segs), SubSeq(at, 1, Len(at) - 1))
    ELSE Walk(Tail(segs), Append(at, Head(segs)))

\* The entry a relative reference addresses from a directory of the archive.
Addressed(dir, ref) == JoinSlash(Walk(Split(ref), Split(dir)))

\* The directory an entry of the archive is in.
FolderOf(path) ==
    LET segs == Split(path) IN JoinSlash(SubSeq(segs, 1, Len(segs) - 1))

\* C15: the content document read for a spine item is the entry its href
\* addresses from the package document's directory, and the image
\* extracted for it is the entry its reference addresses from the content
\* document's own directory, with that entry's bytes.
C15_TwoLevelAnchoring ==
    \A c \in Procs :
        \A j \in 1..Len(images[c]) :
            LET img == images[c][j]
                href == OpfManifest[spine_ids[c][img.pos]]
                ref == ZipRead(input[c], img.doc).src
            IN  /\ img.doc = Addressed(metadata[c].opf_dir, href)
                /\ img.from = Addressed(FolderOf(img.doc), ref)
                /\ pc[c] \in {"spine", "init_build", "pages", "zip"}
                     => ContentOf(fs.extract, img.path).data
                          = ZipRead(input[c], Addressed(FolderOf(img.doc), ref)).bytes

\* An image extracted from below the content document's directory, where
\* the package document's directory holds another image under the same
\* relative path.
C15_Witness ==
    /\ pc[1] = "init_build"
    /\ spine_ids[1] = <<"near">>
    /\ Len(images[1]) = 1
    /\ images[1][1].from = <<"OEBPS", Slash, "Text", Slash, "Images", Slash, "01.jpg">>
    /\ ContentOf(fs.extract, images[1][1].path).data = <<1, "t01">>
    /\ ZipRead(input[1], Addressed(metadata[1].opf_dir, P2("Images", "01.jpg"))).bytes
         = <<1, "01">>
UploadedFor(b) == {u \in batch.uploaded : u.for = b}

\* C11: a book whose rebuild returned False is not converted, not uploaded
\* and not moved, it stays in the input folder, and the loop goes on to the
\* next file; no rebuild ends the run of the script.
C11_FailedRebuildSkipped ==
    /\ pc[1] # "crashed"
    /\ batch.at = "aborted" => batch.script = "manga_main_drive"
    /\ (batch.at = "rebuild" /\ pc[1] = "done" /\ result[1] = FALSE)
         => batch.n \notin batch.converted
    /\ \A b \in batch.rebuild_failed :
           /\ b \notin batch.converted
           /\ UploadedFor(b) = {}
           /\ b \notin batch.archive
           /\ b \in batch.inbox
           /\ batch.n > b
    /\ batch.at = "done" => batch.n = Len(batch.files) + 1

\* A run that ended after the rebuild of its first book failed and its
\* second book was rebuilt, converted, uploaded and moved.
C11_Witness ==
    /\ batch.at = "done"
    /\ Len(batch.files) = 2
    /\ batch.rebuild_failed = {1}
    /\ batch.files[2].sub = "001"
    /\ batch.archive = {2}

\* C16: in each of the three scripts a book is moved to the archive folder
\* only when the file the conversion deposited for it was uploaded with
\* success before: the move is reached only after that upload, and a book
\* whose rebuild, conversion or upload failed is still in the input folder.
C16_MoveOnlyAfterUpload ==
    /\ \A b \in batch.archive :
           \E u \in UploadedFor(b) : u.file.by = b /\ u.file.form = "kepub"
    /\ batch.at = "move"
         => \E u \in UploadedFor(batch.n) : u.file.by = batch.n
    /\ \A u \in batch.uploaded : u.for \in batch.converted \ batch.convert_failed
    /\ batch.inbox \cup batch.archive = 1..Len(batch.files)
    /\ batch.inbox \cap batch.archive = {}
    /\ \A b \in batch.rebuild_failed \cup batch.convert_failed
                  \cup batch.upload_failed :
           b \in batch.inbox

\* A run of main.py that ended with its first file left, its upload having
\* failed, and its second file moved.
C16_Witness ==
    /\ batch.script = "main"
    /\ batch.at = "done"
    /\ batch.upload_failed = {1}
    /\ batch.inbox = {1}
    /\ batch.archive = {2}

\* In the manga scripts kepub_out is empty whenever the conversion tool is
\* called.
EmptyAtConversion ==
    (batch.script \in MangaScripts /\ batch.at = "convert") => batch.kepub_out = {}

\* C17: in the manga scripts kepub_out is empty whenever the conversion tool
\* is called, and the file uploaded for a book is the one that call
\* deposited, converted from that book and from no earlier one.
C17_UploadsOwnConversion ==
    /\ EmptyAtConversion
    /\ batch.script \in MangaScripts
         => \A u \in batch.uploaded : u.file.by = u.for /\ u.file.of = u.for
====
